---- MODULE Spec2Model ----
(***************************************************************************)
(* Model of google/colab/_quickchart_helpers.py: the chunker, the          *)
(* dataframe registry, ChartWithCode (construction, get_code) and the      *)
(* section builders.                                                       *)
(***************************************************************************)
EXTENDS Integers, Sequences, FiniteSets, TLC

VARIABLES
  registry,   \* per DataframeRegistry instance: its _df_chart_registry dict
  charts,     \* the ChartWithCode instances held by the caller, in construction order
  sections,   \* the ChartSection objects returned so far
  uuids,      \* number of uuid4() values drawn so far
  issued,     \* history: <<raw bytes, name>> of every register_df_varname call
  last        \* the outcome of the last operation

vars == <<registry, charts, sections, uuids, issued, last>>

-----------------------------------------------------------------------------
(* Bounds of the model. *)

NumBytes == 2       \* distinct raw-value byte strings
HashMax == 1        \* the hash range is -HashMax..HashMax
MaxArgs == 2        \* selectors per section-build call
MaxCharts == 2      \* ChartWithCode constructions in one run
MaxSections == 2    \* sections returned in one run
MaxLen == 4         \* length of a chunked sequence
MaxChunk == 5       \* chunk size

-----------------------------------------------------------------------------
(* Dataframes.  A dataframe object has column labels and cell values; the  *)
(* registry only ever looks at df.values.tobytes(), the raw cell bytes.    *)

Colnames == {"x", "y"}

ColSets == {{"x", "y"}, {"x", "z"}}

\* Dataframe objects: two objects for every content.
DfObjects == {"df_a", "df_b"}

DataFrames == [obj : DfObjects, cols : ColSets, bytes : 0..(NumBytes - 1)]

\* The dataframes sections are built from: one object per content.
SessionFrames == {df \in DataFrames : df.obj = "df_a"}

\* The DataframeRegistry instances.
Registries == {"registry_1", "registry_2"}

\* df.values.tobytes(): the raw cell bytes, without labels.
tobytes(df) == df.bytes

\* Equality of two dataframes as values: same labels and same cells.
ValueEqual(a, b) == a.cols = b.cols /\ a.bytes = b.bytes

\* Python's hash() of a bytes object: a function into a bounded signed range,
\* one-to-one on the byte strings of these bounds (the docstring of
\* register_df_varname sets hash collisions aside).
hash(b) == (b % (2 * HashMax + 1)) - HashMax

abs(n) == IF n < 0 THEN -n ELSE n

\* The f-string 'df_{n}'.
DfName(n) == [prefix |-> "df_", n |-> n]

Names == {DfName(n) : n \in 0..HashMax}

-----------------------------------------------------------------------------
(* DataframeRegistry *)

\* dict.__setitem__
SetItem(d, k, v) == [n \in DOMAIN d \cup {k} |-> IF n = k THEN v ELSE d[n]]

\* A faulty variant of df_varname: the name is taken from the object, not its bytes.
df_varname_by_object(df) == DfName(IF df.obj = "df_a" THEN 0 ELSE 1)

\* line 83: df_name = f'df_{abs(hash(df.values.tobytes()))}'
df_varname(df) == DfName(abs(hash(tobytes(df))))

\* A faulty variant of register_df_varname: the registry keeps only the newest entry.
register_df_varname_evicting(d, df) ==
  [dict |-> SetItem(<<>>, df_varname(df), df), ret |-> df_varname(df)]

\* register_df_varname: the dict after the call, and the returned name.
register_df_varname(d, df) ==
  [dict |-> SetItem(d, df_varname(df), df), ret |-> df_varname(df)]

\* A faulty variant of getitem: a missing name is filled with a default and returned.
getitem_default(d, name) ==
  IF name \in DOMAIN d
    THEN [dict |-> d, ret |-> [ok |-> d[name]]]
    ELSE [dict |-> SetItem(d, name, CHOOSE df \in DataFrames : TRUE),
          ret |-> [ok |-> CHOOSE df \in DataFrames : TRUE]]

\* DataframeRegistry.__getitem__: the dict after the call, and the outcome.
getitem(d, name) ==
  IF name \in DOMAIN d
    THEN [dict |-> d, ret |-> [ok |-> d[name]]]
    ELSE [dict |-> d, ret |-> [raised |-> "KeyError", key |-> name]]

-----------------------------------------------------------------------------
(* _chunked *)

\* list(range(0, n, step)) for step > 0
RECURSIVE range(_, _, _)
range(start, stop, step) ==
  IF start >= stop THEN <<>> ELSE <<start>> \o range(start + step, stop, step)

\* more_itertools.pairwise
pairwise(s) == [i \in 1..(IF Len(s) = 0 THEN 0 ELSE Len(s) - 1) |-> <<s[i], s[i + 1]>>]

\* seq[start:end] with 0 <= start <= end <= len(seq)
slice(s, start, end) == SubSeq(s, start + 1, end)

\* A faulty variant of _chunked: the remainder is dropped.
chunked_truncating(s, chunk_size) ==
  [i \in 1..(Len(s) \div chunk_size) |->
     slice(s, (i - 1) * chunk_size, i * chunk_size)]

\* _chunked(seq, chunk_size): the list of the chunks it yields.
chunked(s, chunk_size) ==
  LET bounds == pairwise(range(0, Len(s), chunk_size) \o <<Len(s)>>)
  IN  [i \in 1..Len(bounds) |-> slice(s, bounds[i][1], bounds[i][2])]

-----------------------------------------------------------------------------
(* Python values that travel as chart arguments. *)

PyStr(s) == [str |-> s]

PyTuple(xs) == [tuple |-> xs]

PyList(xs) == [list |-> xs]

\* The empty dict {} every builder passes as kwargs.
EmptyDict == [dict |-> <<>>]

IsStr(v) == "str" \in DOMAIN v

Items(v) == IF "list" \in DOMAIN v THEN v.list ELSE v.tuple

\* ndarray.tolist(): nested sequences become nested lists, leaves stay.
RECURSIVE tolist(_)
tolist(v) ==
  IF IsStr(v) THEN v
  ELSE PyList([i \in 1..Len(Items(v)) |-> tolist(Items(v)[i])])

\* np.atleast_1d(args).tolist(): a scalar becomes a one-element list.
atleast_1d_tolist(v) == IF IsStr(v) THEN PyList(<<v>>) ELSE tolist(v)

\* The column names a value mentions.
RECURSIVE Leaves(_)
Leaves(v) ==
  IF IsStr(v) THEN {v.str}
  ELSE UNION {Leaves(Items(v)[i]) : i \in 1..Len(Items(v))}

-----------------------------------------------------------------------------
(* The plotting functions of _quickchart_lib: pure functions               *)
(* (df, *args, **kwargs) -> chart.  A chart is the term of its inputs; a   *)
(* function raises when asked for a column the dataframe does not have.    *)

PlotRaises(df, args) == \E c \in Leaves(args) : c \notin df.cols

PlotError(func, args) == [raised |-> "KeyError", func |-> func, args |-> args]

plot(func, df, args, kwargs) ==
  [func |-> func, cols |-> df.cols, bytes |-> df.bytes,
   args |-> args.list, kwargs |-> kwargs]

-----------------------------------------------------------------------------
(* ChartWithCode *)

\* A faulty variant of new_chart_id: the identifier is derived from the dataframe name.
chart_id_from_content(u, df_name) == [prefix |-> "chart-", uuid |-> df_name.n]

\* line 103: f'chart-{str(_uuid.uuid4())}', u values having been drawn before;
\* uuid4 never returns a value twice.
new_chart_id(u, df_name) == [prefix |-> "chart-", uuid |-> u + 1]

\* ChartWithCode.__init__ on registry r holding dict d, u uuids drawn so far:
\* the dict and the uuid count after the call, and the instance or the exception.
ChartWithCode(df, plot_func, args, kwargs, r, d, u) ==
  LET reg == register_df_varname(d, df)
      self == [df |-> df, df_registry |-> r, df_varname |-> reg.ret,
               plot_func |-> plot_func, args |-> args, kwargs |-> kwargs,
               chart_id |-> new_chart_id(u, reg.ret),
               chart |-> plot(plot_func, df, args, kwargs)]
  IN  [dict |-> reg.dict, uuids |-> u + 1, name |-> reg.ret,
       ret |-> IF PlotRaises(df, args)
                 THEN PlotError(plot_func, args)
                 ELSE [ok |-> self]]

-----------------------------------------------------------------------------
(* get_code and the text it returns: lines of tokens. *)

T(s) == [t |-> s]

Id(s) == [id |-> s]

\* str() of a value: its default string representation, as tokens.
RECURSIVE Str(_)
StrItems(xs) ==
  LET RECURSIVE join(_)
      join(i) == IF i > Len(xs) THEN <<>>
                 ELSE (IF i > 1 THEN <<T(",")>> ELSE <<>>) \o Str(xs[i]) \o join(i + 1)
  IN  join(1)
Str(v) ==
  IF IsStr(v) THEN <<[lit |-> v.str]>>
  ELSE IF "dict" \in DOMAIN v THEN <<T("{"), T("}")>>
  ELSE IF "list" \in DOMAIN v THEN <<T("[")>> \o StrItems(v.list) \o <<T("]")>>
  ELSE <<T("(")>> \o StrItems(v.tuple) \o <<T(")")>>

\* inspect.getsource(plot_func): the def statement of the function.
getsource(plot_func) == <<T("def"), Id(plot_func), T("(df, ...):"), [body |-> plot_func]>>

\* A faulty variant of get_code: the snippet also shows what the name resolves to now.
get_code_reading_registry(self) ==
  <<<<T("import"), T("altair"), T("as"), T("alt")>>,
    <<T("from"), T("google.colab"), T("import"), T("_quickchart")>>,
    <<self.df_varname, T("="), T("_quickchart.get_registered_df"), T("("),
      [namelit |-> self.df_varname], T(")")>>,
    <<[stored |-> getitem(registry[self.df_registry], self.df_varname).ret]>>,
    getsource(self.plot_func),
    <<>>,
    <<T("chart"), T("="), Id(self.plot_func), T("("), self.df_varname,
      T(","), T("*")>> \o Str(self.args) \o <<T(","), T("**")>>
      \o Str(self.kwargs) \o <<T(")")>>,
    <<T("chart")>>>>

\* ChartWithCode.get_code
get_code(self) ==
  <<<<T("import"), T("altair"), T("as"), T("alt")>>,
    <<T("from"), T("google.colab"), T("import"), T("_quickchart")>>,
    <<self.df_varname, T("="), T("_quickchart.get_registered_df"), T("("),
      [namelit |-> self.df_varname], T(")")>>,
    <<>>,
    getsource(self.plot_func),
    <<>>,
    <<T("chart"), T("="), Id(self.plot_func), T("("), self.df_varname,
      T(","), T("*")>> \o Str(self.args) \o <<T(","), T("**")>>
      \o Str(self.kwargs) \o <<T(")")>>,
    <<T("chart")>>>>

\* eval() of the tokens of a literal: the value, and the tokens after it.
RECURSIVE ParseValue(_), ParseItems(_, _)
ParseValue(toks) ==
  IF Head(toks) = T("[") THEN ParseItems(Tail(toks), <<>>)
  ELSE IF "lit" \in DOMAIN Head(toks)
    THEN [val |-> PyStr(Head(toks).lit), rest |-> Tail(toks)]
  ELSE [val |-> EmptyDict, rest |-> Tail(Tail(toks))]
ParseItems(toks, acc) ==
  IF Head(toks) = T("]") THEN [val |-> PyList(acc), rest |-> Tail(toks)]
  ELSE IF Head(toks) = T(",") THEN ParseItems(Tail(toks), acc)
  ELSE LET p == ParseValue(toks) IN ParseItems(p.rest, Append(acc, p.val))

\* Running the snippet where get_registered_df reads dict d: the chart the
\* last expression yields, or the exception that ends the run.
exec(text, d) ==
  LET lookup == getitem(d, text[3][5].namelit).ret
      defined == text[5][2].id
      call == text[7]
      args == ParseValue(SubSeq(call, 8, Len(call)))
      kwargs == ParseValue(SubSeq(args.rest, 3, Len(args.rest)))
  IN  IF "raised" \in DOMAIN lookup THEN lookup
      ELSE IF call[3].id # defined \/ call[5] # text[3][1]
        THEN [raised |-> "NameError"]
      ELSE IF PlotRaises(lookup.ok, args.val)
        THEN PlotError(text[5][4].body, args.val)
      ELSE [ok |-> plot(text[5][4].body, lookup.ok, args.val, kwargs.val)]

-----------------------------------------------------------------------------
(* ChartSection, SectionTitle and the section builders. *)

\* SectionTitle._repr_html_
SectionTitle(title) == [h4 |-> "colab-quickchart-section-title", title |-> title]

\* ChartWithCode._repr_html_: the container tagged with the chart's id.
repr_html(self) == [div |-> "colab-quickchart-chart-with-code", id |-> self.chart_id]

\* A faulty variant of chart_section_from: a chart that fails to render is skipped.
RECURSIVE chart_section_skipping(_, _, _, _, _, _, _)
chart_section_skipping(df, plot_func, args_per_chart, kwargs, r, i, st) ==
  IF i > Len(args_per_chart) THEN st
  ELSE
    LET args == atleast_1d_tolist(args_per_chart[i])
        c == ChartWithCode(df, plot_func, args, kwargs, r, st.dict, st.uuids)
        nxt == [dict |-> c.dict, uuids |-> c.uuids,
                names |-> Append(st.names, c.name),
                plotted |-> Append(st.plotted, args_per_chart[i]),
                charts |-> IF "ok" \in DOMAIN c.ret
                             THEN Append(st.charts, c.ret.ok) ELSE st.charts,
                raised |-> <<>>]
    IN  chart_section_skipping(df, plot_func, args_per_chart, kwargs, r, i + 1, nxt)

\* lines 309-314: the list comprehension, from its i-th element on.  st holds
\* the registry dict, the uuid count, the names registered, the arguments
\* plot_func was called with and the charts built so far; the first exception
\* ends the comprehension.
RECURSIVE chart_section_from(_, _, _, _, _, _, _)
chart_section_from(df, plot_func, args_per_chart, kwargs, r, i, st) ==
  IF i > Len(args_per_chart) THEN st
  ELSE
    LET args == atleast_1d_tolist(args_per_chart[i])
        c == ChartWithCode(df, plot_func, args, kwargs, r, st.dict, st.uuids)
        nxt == [dict |-> c.dict, uuids |-> c.uuids,
                names |-> Append(st.names, c.name),
                plotted |-> Append(st.plotted, args_per_chart[i]),
                charts |-> IF "ok" \in DOMAIN c.ret
                             THEN Append(st.charts, c.ret.ok) ELSE st.charts,
                raised |-> IF "ok" \in DOMAIN c.ret THEN <<>> ELSE <<c.ret>>]
    IN  IF nxt.raised # <<>> THEN nxt
        ELSE chart_section_from(df, plot_func, args_per_chart, kwargs, r, i + 1, nxt)

Reverse(xs) == [i \in 1..Len(xs) |-> xs[Len(xs) + 1 - i]]

\* ChartSection.__init__
ChartSection(charts_, displayables) ==
  [charts |-> charts_, displayables |-> displayables]

\* A faulty variant of chart_section: the charts come out in reverse order.
chart_section_reversed(df, plot_func, args_per_chart, kwargs, r, d, u, title) ==
  LET st == chart_section_from(df, plot_func, Reverse(args_per_chart), kwargs, r, 1,
              [dict |-> d, uuids |-> u, names |-> <<>>, plotted |-> <<>>,
               charts |-> <<>>, raised |-> <<>>])
  IN  [dict |-> st.dict, uuids |-> st.uuids, names |-> st.names,
       plotted |-> st.plotted,
       ret |-> IF st.raised # <<>> THEN st.raised[1]
               ELSE [ok |-> ChartSection(st.charts,
                                         <<SectionTitle(title)>> \o st.charts)]]

\* _chart_section: the registry dict and uuid count after the call, the
\* register and plot_func calls it made, and the ChartSection it returns or
\* the exception it raises.
chart_section(df, plot_func, args_per_chart, kwargs, r, d, u, title) ==
  LET st == chart_section_from(df, plot_func, args_per_chart, kwargs, r, 1,
              [dict |-> d, uuids |-> u, names |-> <<>>, plotted |-> <<>>,
               charts |-> <<>>, raised |-> <<>>])
  IN  [dict |-> st.dict, uuids |-> st.uuids, names |-> st.names,
       plotted |-> st.plotted,
       ret |-> IF st.raised # <<>> THEN st.raised[1]
               ELSE [ok |-> ChartSection(st.charts,
                                         <<SectionTitle(title)>> \o st.charts)]]

\* A returned section as the state holds it: its charts are references into
\* charts, the first one at position first + 1.
SectionRefs(section, first) ==
  [title |-> section.displayables[1].title,
   charts |-> [i \in 1..Len(section.charts) |-> first + i]]

\* The six public builders: the plotting function, the title, and how the
\* selectors are packed into per-chart arguments.
Builders ==
  { [name |-> "histograms_section", plot_func |-> "histogram",
     title |-> "Distributions", takes |-> "colnames"],
    [name |-> "value_plots_section", plot_func |-> "value_plot",
     title |-> "Values", takes |-> "colnames"],
    [name |-> "categorical_histograms_section", plot_func |-> "categorical_histogram",
     title |-> "Categorical distributions", takes |-> "colnames"],
    [name |-> "heatmaps_section", plot_func |-> "heatmap",
     title |-> "Heatmaps", takes |-> "colname_pairs"],
    [name |-> "linked_scatter_section", plot_func |-> "linked_scatter_plots",
     title |-> "2-d distributions", takes |-> "all_pairs"],
    [name |-> "swarm_plots_section", plot_func |-> "swarm_plot",
     title |-> "Swarm plots", takes |-> "colname_pairs"] }

ColnameArgs == {PyStr(c) : c \in Colnames}

PairArgs ==
  {PyTuple(<<PyStr(p[1]), PyStr(p[2])>>) :
     p \in {q \in Colnames \X Colnames : q[1] # q[2]}}

\* The selector sequences a caller may pass to a builder.
Selectors(b) ==
  LET elems == IF b.takes = "colnames" THEN ColnameArgs ELSE PairArgs
  IN  UNION {[1..n -> elems] : n \in 0..MaxArgs}

\* args_per_chart as the builder passes it on; linked_scatter_section passes
\* [[list(colname_pairs)]]: one chart whose one argument is the list of pairs.
ArgsPerChart(b, sel) ==
  IF b.takes = "all_pairs" THEN <<PyList(<<PyList(sel)>>)>> ELSE sel

-----------------------------------------------------------------------------
(* Initial state and the operations. *)

Init ==
  /\ registry = [r \in Registries |-> <<>>]
  /\ charts = <<>>
  /\ sections = <<>>
  /\ uuids = 0
  /\ issued = {}
  /\ last = [op |-> "init"]

\* registry.register_df_varname(df)
Register(r, df) ==
  LET res == register_df_varname(registry[r], df) IN
  /\ registry' = [registry EXCEPT ![r] = res.dict]
  /\ issued' = issued \cup {<<tobytes(df), res.ret>>}
  /\ last' = [op |-> "register", r |-> r, df |-> df, ret |-> res.ret]
  /\ UNCHANGED <<charts, sections, uuids>>

\* registry[name]
Resolve(r, name) ==
  LET res == getitem(registry[r], name) IN
  /\ registry' = [registry EXCEPT ![r] = res.dict]
  /\ last' = [op |-> "resolve", r |-> r, name |-> name, ret |-> res.ret,
              before |-> registry]
  /\ UNCHANGED <<charts, sections, uuids, issued>>

Sequences == UNION {[1..n -> Colnames] : n \in 0..MaxLen}

\* list(_chunked(seq, chunk_size))
Chunk(s, k) ==
  /\ last' = [op |-> "chunked", seq |-> s, chunk_size |-> k, ret |-> chunked(s, k)]
  /\ UNCHANGED <<registry, charts, sections, uuids, issued>>

\* One of the section builders, called on (df, selectors, registry r).
BuildSection(b, df, sel, r) ==
  /\ uuids + Len(ArgsPerChart(b, sel)) <= MaxCharts
  /\ Len(sections) < MaxSections
  /\ \E res \in {chart_section(df, b.plot_func, ArgsPerChart(b, sel), EmptyDict,
                               r, registry[r], uuids, b.title)} :
     /\ registry' = [registry EXCEPT ![r] = res.dict]
     /\ uuids' = res.uuids
     /\ issued' = issued \cup {<<tobytes(df), res.names[i]>> : i \in 1..Len(res.names)}
     /\ charts' = IF "ok" \in DOMAIN res.ret THEN charts \o res.ret.ok.charts ELSE charts
     /\ sections' = IF "ok" \in DOMAIN res.ret
                      THEN Append(sections, SectionRefs(res.ret.ok, Len(charts)))
                      ELSE sections
     /\ last' = [op |-> "build", builder |-> b.name, df |-> df, r |-> r,
                 args_per_chart |-> ArgsPerChart(b, sel), plotted |-> res.plotted,
                 ret |-> IF "ok" \in DOMAIN res.ret
                           THEN [ok |-> Len(sections) + 1] ELSE res.ret]

\* chart.get_code() on the c-th chart.
GetCode(c) ==
  /\ last' = [op |-> "get_code", chart |-> c, ret |-> get_code(charts[c])]
  /\ UNCHANGED <<registry, charts, sections, uuids, issued>>

\* Running the text of chart c where get_registered_df reads the registry
\* the chart was built with.
Replay(c) ==
  /\ last' = [op |-> "replay", chart |-> c,
              ret |-> exec(get_code(charts[c]), registry[charts[c].df_registry])]
  /\ UNCHANGED <<registry, charts, sections, uuids, issued>>

\* section.display(): the title, then every chart in order.
Display(s) ==
  /\ last' = [op |-> "display", section |-> s,
              out |-> <<SectionTitle(sections[s].title)>> \o
                      [i \in 1..Len(sections[s].charts) |->
                         repr_html(charts[sections[s].charts[i]])]]
  /\ UNCHANGED <<registry, charts, sections, uuids, issued>>

Next ==
  \/ \E b \in Builders, df \in SessionFrames, r \in Registries :
       \E sel \in Selectors(b) : BuildSection(b, df, sel, r)
  \/ \E c \in 1..Len(charts) : GetCode(c)
  \/ \E c \in 1..Len(charts) : Replay(c)
  \/ \E s \in 1..Len(sections) : Display(s)

Spec == Init /\ [][Next]_vars

NextRegistry ==
  \/ \E r \in Registries, df \in DataFrames : Register(r, df)
  \/ \E r \in Registries, name \in Names : Resolve(r, name)

NextChunk == \E s \in Sequences, k \in 1..MaxChunk : Chunk(s, k)

SpecRegistry == Init /\ [][NextRegistry]_vars

SpecChunk == Init /\ [][NextChunk]_vars

-----------------------------------------------------------------------------
(* Properties. *)

Other(r) == CHOOSE q \in Registries : q # r

\* The column names of a value, flattened in order.
RECURSIVE Flat(_)
Flat(v) ==
  IF IsStr(v) THEN <<v.str>>
  ELSE LET RECURSIVE cat(_)
           cat(i) == IF i > Len(Items(v)) THEN <<>>
                     ELSE Flat(Items(v)[i]) \o cat(i + 1)
       IN  cat(1)

RECURSIVE Concat(_)
Concat(ss) == IF ss = <<>> THEN <<>> ELSE Head(ss) \o Concat(Tail(ss))

BuilderNamed(n) == CHOOSE b \in Builders : b.name = n

\* The first argument tuple the plotting function fails on.
FirstFailing(df, apc) ==
  CHOOSE i \in 1..Len(apc) :
    /\ PlotRaises(df, apc[i])
    /\ \A j \in 1..(i - 1) : ~PlotRaises(df, apc[j])

\* C1: registry idempotence.  Of all the register calls made so far, on any
\* registry and in any order, any two whose dataframes have identical raw
\* values returned the same name.
C1_SameValuesSameName ==
  \A p \in issued : \A q \in issued : p[1] = q[1] => p[2] = q[2]

\* C1 witness: a dataframe was just registered while the other registry holds
\* a distinct object with the same raw values, and another name is registered
\* beside it.
C1_Witness ==
  /\ last.op = "register"
  /\ last.ret \in DOMAIN registry[Other(last.r)]
  /\ registry[Other(last.r)][last.ret].obj # last.df.obj
  /\ registry[Other(last.r)][last.ret].bytes = last.df.bytes
  /\ Cardinality(DOMAIN registry[last.r]) > 1

\* C2: registry round trip.  Right after register(df) the returned name
\* resolves to a dataframe value-equal to df, and whatever a name resolves to
\* is never replaced by a dataframe that is not value-equal to it.
C2_RoundTripPersists ==
  /\ [](last.op = "register" =>
          /\ "ok" \in DOMAIN getitem(registry[last.r], last.ret).ret
          /\ ValueEqual(getitem(registry[last.r], last.ret).ret.ok, last.df))
  /\ [][\A r \in Registries : \A n \in DOMAIN registry[r] :
          /\ n \in DOMAIN registry'[r]
          /\ ValueEqual(registry'[r][n], registry[r][n])]_vars

\* C3: resolving a name that is not registered in that registry raises
\* KeyError (a LookupError) for that name, and leaves every registry as it was.
C3_UnknownNameRaises ==
  (last.op = "resolve" /\ last.name \notin DOMAIN last.before[last.r]) =>
    /\ last.ret = [raised |-> "KeyError", key |-> last.name]
    /\ registry = last.before

\* C3 witness: the name resolved is unknown to this registry and registered
\* in the other one.
C3_Witness ==
  /\ last.op = "resolve"
  /\ last.name \notin DOMAIN last.before[last.r]
  /\ last.name \in DOMAIN registry[Other(last.r)]

\* C4: chart identifier uniqueness.  Any two distinct ChartWithCode instances
\* have different identifiers, every identifier is one already drawn (so no
\* later chart gets it), and no step changes the identifier of a chart.
C4_ChartIdsUnique ==
  /\ [](\A i \in 1..Len(charts) : \A j \in 1..Len(charts) :
          i # j => charts[i].chart_id # charts[j].chart_id)
  /\ [](\A i \in 1..Len(charts) : charts[i].chart_id.uuid \in 1..uuids)
  /\ [][\A i \in 1..Len(charts) :
          i <= Len(charts') /\ charts'[i].chart_id = charts[i].chart_id]_vars

\* C4 witness: two sections, each with a chart built from the same dataframe,
\* plotting function and arguments.
C4_Witness ==
  /\ Len(sections) = 2
  /\ \E i \in 1..Len(sections[1].charts) : \E j \in 1..Len(sections[2].charts) :
       LET a == charts[sections[1].charts[i]]
           b == charts[sections[2].charts[j]]
       IN  a.df = b.df /\ a.plot_func = b.plot_func /\ a.args = b.args

\* C5: section ordering.  A section-build that returns yields exactly one
\* chart per argument tuple, separate instances, the i-th chart carrying the
\* i-th tuple's selectors.
C5_SectionOrdering ==
  (last.op = "build" /\ "ok" \in DOMAIN last.ret) =>
    LET sec == sections[last.ret.ok]
        apc == last.args_per_chart
    IN  /\ Len(sec.charts) = Len(apc)
        /\ \A i \in 1..Len(sec.charts) :
             /\ sec.charts[i] \in 1..Len(charts)
             /\ Flat(charts[sec.charts[i]].args) = Flat(apc[i])
        /\ \A i \in 1..Len(sec.charts) : \A j \in 1..Len(sec.charts) :
             i # j => /\ sec.charts[i] # sec.charts[j]
                      /\ charts[sec.charts[i]].chart_id
                           # charts[sec.charts[j]].chart_id

\* C5 witness: a section just built from two different argument tuples.
C5_Witness ==
  /\ last.op = "build"
  /\ "ok" \in DOMAIN last.ret
  /\ Len(last.args_per_chart) = 2
  /\ last.args_per_chart[1] # last.args_per_chart[2]

\* C6: a failing plot aborts the section-build.  The build raises exactly
\* when the plotting function fails on some tuple; it then raises that
\* function's exception, has called the function on the tuples up to the
\* failing one and on no later one, and adds no chart and no section.
C6_FailureAborts ==
  /\ [](last.op = "build" =>
          LET apc == last.args_per_chart
              fails == \E i \in 1..Len(apc) : PlotRaises(last.df, apc[i])
          IN  /\ fails <=> "raised" \in DOMAIN last.ret
              /\ fails =>
                   LET k == FirstFailing(last.df, apc)
                   IN  /\ last.ret = PlotError(BuilderNamed(last.builder).plot_func,
                                               atleast_1d_tolist(apc[k]))
                       /\ last.plotted = SubSeq(apc, 1, k))
  /\ [][(last'.op = "build" /\ "raised" \in DOMAIN last'.ret) =>
          charts' = charts /\ sections' = sections]_vars

\* C6 witness: the build failed on its second tuple, after the first rendered.
C6_Witness ==
  /\ last.op = "build"
  /\ "raised" \in DOMAIN last.ret
  /\ Len(last.plotted) = 2

\* C7: get_code is pure and stable.  A get_code call returns the text of
\* its chart and changes nothing else, and the text get_code returns for a
\* chart is the same before and after every step.
C7_GetCodeStable ==
  /\ [](last.op = "get_code" => last.ret = get_code(charts[last.chart]))
  /\ [][\A i \in 1..Len(charts) :
          i <= Len(charts') /\ get_code(charts[i])' = get_code(charts[i])]_vars
  /\ [][last'.op = "get_code" =>
          UNCHANGED <<registry, charts, sections, uuids, issued>>]_vars

\* C7 witness: get_code was called on a chart whose registered name has since
\* been registered again with another dataframe object.
C7_Witness ==
  /\ last.op = "get_code"
  /\ LET c == charts[last.chart]
     IN  registry[c.df_registry][c.df_varname] # c.df

\* C8: replay equivalence.  Running the text of get_code against the
\* registry the chart was built with yields the chart the constructor
\* rendered.
C8_ReplayEquivalent ==
  last.op = "replay" => last.ret = [ok |-> charts[last.chart].chart]

\* C9: chunking.  The chunks concatenate to the sequence; every chunk but
\* the last has the chunk size and the last holds the remainder; no chunk is
\* empty; an empty sequence gives no chunk; a chunk size of at least the
\* length gives the one chunk.
C9_Chunking ==
  last.op = "chunked" =>
    LET cs == last.ret
        S == last.seq
        k == last.chunk_size
    IN  /\ Concat(cs) = S
        /\ \A i \in 1..Len(cs) : cs[i] # <<>>
        /\ \A i \in 1..(Len(cs) - 1) : Len(cs[i]) = k
        /\ cs # <<>> => Len(cs[Len(cs)]) = Len(S) - k * (Len(cs) - 1)
        /\ cs # <<>> => Len(cs[Len(cs)]) \in 1..k
        /\ (Len(S) = 0 => cs = <<>>)
        /\ (k >= Len(S) /\ Len(S) > 0 => cs = <<S>>)

\* C9 witness: several chunks, the last one shorter than the chunk size.
C9_Witness ==
  /\ last.op = "chunked"
  /\ Len(last.ret) >= 2
  /\ Len(last.ret[Len(last.ret)]) < last.chunk_size

\* C10: provenance never dangles.  No step removes a name from a registry;
\* the name every chart holds resolves in the registry the chart was built
\* with; the charts of one section hold the same name.
C10_ProvenanceResolves ==
  /\ [][\A r \in Registries : DOMAIN registry[r] \subseteq DOMAIN registry'[r]]_vars
  /\ [](\A i \in 1..Len(charts) :
          "ok" \in DOMAIN getitem(registry[charts[i].df_registry],
                                  charts[i].df_varname).ret)
  /\ [](\A s \in 1..Len(sections) :
          \A i \in 1..Len(sections[s].charts) :
            \A j \in 1..Len(sections[s].charts) :
              charts[sections[s].charts[i]].df_varname
                = charts[sections[s].charts[j]].df_varname)

\* C10 witness: two sections built on one registry from dataframes with
\* different names.
C10_Witness ==
  /\ Len(sections) = 2
  /\ sections[1].charts # <<>>
  /\ sections[2].charts # <<>>
  /\ LET a == charts[sections[1].charts[1]]
         b == charts[sections[2].charts[1]]
     IN  a.df_registry = b.df_registry /\ a.df_varname # b.df_varname

====
